---- MODULE Spec2Model ----
(***************************************************************************)
(* Model of real-estate-scraper.py: the retry-wrapped scrape_properties,   *)
(* the per-listing field extraction, save_to_csv, send_telegram_alert and  *)
(* the orchestrator main.                                                  *)
(*                                                                         *)
(* Python values: a str is a TLA+ string wrapped by Str, None is the value *)
(* None below, so that "N/A" and None are different values of one shape.   *)
(* A dict is the sequence of its <<key, value>> pairs in insertion order.  *)
(* An optional element of a listing node is <<>> (absent) or <<text>>.     *)
(***************************************************************************)
EXTENDS Integers, Sequences, FiniteSets, TLC

VARIABLES
    pc,          \* position of main: "scrape","wait","save","alert","done","failed"
    url,         \* the url argument of scrape_properties
    attempt,     \* attempts of scrape_properties started by the retry wrapper
    clock,       \* time units slept by the retry wrapper
    waits,       \* number of sleeps of the retry wrapper
    outcomes,    \* one entry per attempt: whether the GET brought a parseable
                 \* page, how the attempt ended, how many nodes it skipped
    doc,         \* listing nodes of the last parsed response, in document order
    listings,    \* local `listings` of the last attempt
    consulted,   \* selector strategies evaluated by the last attempt, in order
    properties,  \* records returned by scrape_properties / handed to the sinks
    sinks,       \* sink invocations of the run, in order
    csvFile,     \* <<>> or <<table>>: properties.csv as written by this run
    telegram,    \* <<>> or <<payload records>>: the message posted
    topError     \* the exception leaving main, or NoError

vars == <<pc, url, attempt, clock, waits, outcomes, doc, listings, consulted,
          properties, sinks, csvFile, telegram, topError>>

--------------------------------------------------------------------------
(* Bounds of the model *)

MaxNodes == 2
MaxRecords == 2

(* Program constants *)

MaxAttempts == 3
WaitFixed == 2
TelegramLimit == 5

TargetUrl == "https://dallas.craigslist.org/search/rea"

--------------------------------------------------------------------------
(* Python values *)

Str(s) == [type |-> "str", val |-> s]
None == [type |-> "NoneType", val |-> ""]

Min(a, b) == IF a < b THEN a ELSE b

\* str.startswith
StartsWith(s, prefix) ==
    /\ Len(s) >= Len(prefix)
    /\ SubSeq(s, 1, Len(prefix)) = prefix

RECURSIVE LStrip(_)
LStrip(s) ==
    IF Len(s) > 0 /\ SubSeq(s, 1, 1) = " "
    THEN LStrip(SubSeq(s, 2, Len(s)))
    ELSE s

RECURSIVE RStrip(_)
RStrip(s) ==
    IF Len(s) > 0 /\ SubSeq(s, Len(s), Len(s)) = " "
    THEN RStrip(SubSeq(s, 1, Len(s) - 1))
    ELSE s

\* str.strip
Strip(s) == RStrip(LStrip(s))

\* truthiness of a list / ResultSet
Truthy(list) == Len(list) > 0

\* exceptions: the type, the attempt that raised it (0: a sink), what it wraps
Exc(type, n) == [type |-> type, attempt |-> n, wraps |-> "none"]
NoError == [type |-> "none", attempt |-> 0, wraps |-> "none"]

--------------------------------------------------------------------------
(* The response of the HTTP GET and the listing nodes of its body *)

\* the selector strategies of the `or` chain, in the order written
Strategies == <<"li.cl-static-search-result", "div.result-row", "div.cl-search-result">>
StrategySet == {Strategies[i] : i \in 1..Len(Strategies)}

OptTexts(t) == {<<>>, <<t>>}
Hrefs == {<<>>, <<"/post/123">>, <<"https://x.org/7.html">>, <<"httpfoo">>, <<"">>}

\* a listing node: the selector it matches, the elements it holds, and whether
\* its markup makes the field extraction raise
Nodes ==
    [sel : StrategySet,
     title : OptTexts("  Cozy loft "), price : OptTexts("$900 "),
     location : OptTexts(" Plano"),
     housing : OptTexts("2br - 900ft2"), bedrooms : OptTexts("3br"),
     href : Hrefs, malformed : BOOLEAN]

FullListing(sel, m) ==
    [sel |-> sel, title |-> <<"  Cozy loft ">>, price |-> <<"$900 ">>,
     location |-> <<" Plano">>, housing |-> <<"2br - 900ft2">>,
     bedrooms |-> <<"3br">>, href |-> <<"/post/123">>, malformed |-> m]

BareListing(sel, m) ==
    [sel |-> sel, title |-> <<>>, price |-> <<>>, location |-> <<>>,
     housing |-> <<>>, bedrooms |-> <<>>, href |-> <<>>, malformed |-> m]

\* the nodes of the pages served to a whole run of main
RunNodes ==
    {FullListing(s, m) : s \in StrategySet, m \in BOOLEAN}
        \cup {BareListing(s, m) : s \in StrategySet, m \in BOOLEAN}

SeqsUpTo(S, n) == UNION {[1..k -> S] : k \in 0..n}

Response(transport, status, parseable, body) ==
    [transport |-> transport, status |-> status, parseable |-> parseable,
     body |-> body]

\* what one GET can bring: no connection, an error status, a body the parser
\* rejects, or a page of listing nodes
FailingResponses ==
    {Response(FALSE, 0, FALSE, <<>>), Response(TRUE, 404, TRUE, <<>>),
     Response(TRUE, 503, TRUE, <<>>), Response(TRUE, 200, FALSE, <<>>)}
RunResponses ==
    FailingResponses \cup {Response(TRUE, 200, TRUE, d) : d \in SeqsUpTo(RunNodes, MaxNodes)}
UnitResponses ==
    {Response(TRUE, 200, TRUE, <<n>>) : n \in Nodes}

--------------------------------------------------------------------------
(* scrape_properties: one attempt *)

\* soup.find_all(tag, class_=...): the matching nodes in document order
FindAll(d, sel) == SelectSeq(d, LAMBDA n : n.sel = sel)

\* a or b or c: evaluate left to right, stop at the first truthy operand,
\* the last operand is the value when none is truthy
RECURSIVE OrChain(_, _, _)
OrChain(d, strategies, seen) ==
    LET m == FindAll(d, Head(strategies))
        seen2 == Append(seen, Head(strategies))
    IN  IF Truthy(m) \/ Len(strategies) = 1
        THEN [listings |-> m, consulted |-> seen2]
        ELSE OrChain(d, Tail(strategies), seen2)

\* a discovery that merges the matches of all three strategies
DiscoverMerged(d) ==
    [listings |-> FindAll(d, Strategies[1]) \o FindAll(d, Strategies[2])
                      \o FindAll(d, Strategies[3]),
     consulted |-> Strategies]

Discover(d) == OrChain(d, Strategies, <<>>)

\* an extraction that leaves an absent element's field empty
TextOrEmpty(el) == IF el # <<>> THEN Str(Strip(el[1])) ELSE Str("")

\* el.text.strip() if el else "N/A"
TextOrNA(el) == IF el # <<>> THEN Str(Strip(el[1])) ELSE Str("N/A")

\* find('span', 'housing') or find('span', 'bedrooms')
BedroomsEl(listing) ==
    IF listing.housing # <<>> THEN listing.housing ELSE listing.bedrooms

\* a join that puts a path separator between the page url and the href
ResolveLinkSeparated(u, href) ==
    IF ~StartsWith(href, "http") THEN u \o "/" \o href ELSE href

\* if not link.startswith('http'): link = url + link
ResolveLink(u, href) == IF ~StartsWith(href, "http") THEN u \o href ELSE href

\* link = listing.find('a', href=True); if link: ...
LinkOf(listing, u) ==
    IF listing.href # <<>> THEN Str(ResolveLink(u, listing.href[1])) ELSE None

\* the body of the per-listing try block
ExtractListing(listing, u) ==
    IF listing.malformed
    THEN [raised |-> TRUE, rec |-> <<>>]
    ELSE [raised |-> FALSE,
          rec |-> << <<"Title", TextOrNA(listing.title)>>,
                     <<"Price", TextOrNA(listing.price)>>,
                     <<"Location", TextOrNA(listing.location)>>,
                     <<"Bedrooms", TextOrNA(BedroomsEl(listing))>>,
                     <<"Link", LinkOf(listing, u)>> >>]

\* a handler that leaves the loop (break) instead of going on to the next node
OnListingErrorBreak(props, rest) == [props |-> props, rest |-> <<>>]

\* except Exception: logger.warning(...); continue
OnListingError(props, rest) == [props |-> props, rest |-> rest]

\* for listing in listings: try ... properties.append(...) except ... continue
RECURSIVE ExtractLoop(_, _, _)
ExtractLoop(ls, u, props) ==
    IF ls = <<>> THEN props
    ELSE LET r == ExtractListing(Head(ls), u)
             k == IF r.raised THEN OnListingError(props, Tail(ls))
                  ELSE [props |-> Append(props, r.rec), rest |-> Tail(ls)]
         IN  ExtractLoop(k.rest, u, k.props)

\* the body of scrape_properties on the n-th attempt
ScrapeOnce(u, resp, n) ==
    LET fail(type) ==
            [raised |-> TRUE, exc |-> Exc(type, n), doc |-> <<>>,
             listings |-> <<>>, consulted |-> <<>>, properties |-> <<>>]
    IN  IF ~resp.transport THEN fail("ConnectionError")
        ELSE IF resp.status >= 400 THEN fail("HTTPError")
        ELSE IF ~resp.parseable THEN fail("ParserRejectedMarkup")
        ELSE LET d == Discover(resp.body)
             IN  [raised |-> FALSE, exc |-> NoError, doc |-> resp.body,
                  listings |-> d.listings, consulted |-> d.consulted,
                  properties |-> ExtractLoop(d.listings, u, <<>>)]

--------------------------------------------------------------------------
(* The retry wrapper: @retry(stop=stop_after_attempt(3), wait=wait_fixed(2)) *)

\* a stop condition that is one attempt late
StopLate(n) == n > MaxAttempts

\* stop_after_attempt(3): give up once the attempt number reaches 3
Stop(n) == n >= MaxAttempts

\* a wrapper that retries only the failures of the GET
RetryIfFetchFailed(exc) == exc.type \in {"ConnectionError", "HTTPError"}

\* no retry= argument: every Exception is retried
RetryIf(exc) == exc.type # "none"

\* no reraise= argument: on giving up the wrapper raises RetryError, which
\* holds the last attempt's exception as its cause
OnExhausted(exc) ==
    [type |-> "RetryError", attempt |-> exc.attempt, wraps |-> exc.type]

--------------------------------------------------------------------------
(* The sinks *)

KeysOf(rec) == [i \in 1..Len(rec) |-> rec[i][1]]
HasKey(rec, k) == \E i \in 1..Len(rec) : rec[i][1] = k
Get(rec, k) == rec[CHOOSE i \in 1..Len(rec) : rec[i][1] = k][2]
InSeq(x, seq) == \E i \in 1..Len(seq) : seq[i] = x

RECURSIVE AddKeys(_, _)
AddKeys(cols, keys) ==
    IF keys = <<>> THEN cols
    ELSE AddKeys(IF InSeq(Head(keys), cols) THEN cols ELSE Append(cols, Head(keys)),
                 Tail(keys))

RECURSIVE ColumnsFrom(_, _)
ColumnsFrom(data, cols) ==
    IF data = <<>> THEN cols
    ELSE ColumnsFrom(Tail(data), AddKeys(cols, KeysOf(Head(data))))

\* columns sorted by name, as a DataFrame built from sorted keys has them
DataFrameColumnsSorted(data) ==
    <<"Bedrooms", "Link", "Location", "Price", "Title">>

\* pd.DataFrame(list of dicts).columns: the keys in order of first appearance
DataFrameColumns(data) == ColumnsFrom(data, <<>>)

\* a cell as to_csv writes it: None and a missing key are the empty field
Cell(rec, col) ==
    IF HasKey(rec, col) /\ Get(rec, col) # None THEN Get(rec, col).val ELSE ""

\* df.to_csv(filename, index=False): the header row, then one row per record
ToCsv(data) ==
    LET cols == DataFrameColumns(data)
    IN  [header |-> cols,
         rows |-> [i \in 1..Len(data) |->
                      [j \in 1..Len(cols) |-> Cell(data[i], cols[j])]]]

\* the message of send_telegram_alert: data[:5], or the "none found" text
TelegramMessage(data) ==
    IF ~Truthy(data) THEN [kind |-> "none found", shown |-> <<>>]
    ELSE [kind |-> "listings",
          shown |-> SubSeq(data, 1, Min(TelegramLimit, Len(data)))]

--------------------------------------------------------------------------
(* main *)

\* a main that runs the sinks whatever was scraped
MainBranchAlways(props) == "save"

\* if properties: ... else: logger.warning("No properties scraped")
MainBranch(props) == IF Truthy(props) THEN "save" ELSE "done"

\* a main that swallows a sink's exception and goes on
MainAfterSinkSwallow(sink, ok) == IF sink = "csv" THEN "alert" ELSE "done"

\* save_to_csv(...); send_telegram_alert(...) inside main's try: a sink's
\* exception leaves main, a success moves on to the next statement
MainAfterSink(sink, ok) ==
    IF ~ok THEN "failed" ELSE IF sink = "csv" THEN "alert" ELSE "done"

\* the state in which main (or a direct caller) stands at position p, with
\* u the url and props the records at hand
Start(p, u, props) ==
    /\ pc = p
    /\ url = u
    /\ attempt = 0
    /\ clock = 0
    /\ waits = 0
    /\ outcomes = <<>>
    /\ doc = <<>>
    /\ listings = <<>>
    /\ consulted = <<>>
    /\ properties = props
    /\ sinks = <<>>
    /\ csvFile = <<>>
    /\ telegram = <<>>
    /\ topError = NoError

\* main(): target_url is fixed
Init == Start("scrape", TargetUrl, <<>>)

\* one attempt of scrape_properties under the retry wrapper, and main's branch
\* on its result
Attempt(resp) ==
    /\ pc = "scrape"
    /\ LET n == attempt + 1
           r == ScrapeOnce(url, resp, n)
       IN  /\ attempt' = n
           /\ outcomes' = Append(outcomes,
                  [page |-> resp.transport /\ resp.status < 400 /\ resp.parseable,
                   result |-> IF r.raised THEN r.exc.type ELSE "ok",
                   skipped |-> Len(r.listings) - Len(r.properties)])
           /\ doc' = r.doc
           /\ listings' = r.listings
           /\ consulted' = r.consulted
           /\ properties' = r.properties
           /\ pc' = IF ~r.raised THEN MainBranch(r.properties)
                    ELSE IF RetryIf(r.exc) /\ ~Stop(n) THEN "wait"
                    ELSE "failed"
           /\ topError' = IF ~r.raised THEN NoError
                          ELSE IF ~RetryIf(r.exc) THEN r.exc
                          ELSE IF Stop(n) THEN OnExhausted(r.exc)
                          ELSE NoError
    /\ UNCHANGED <<url, clock, waits, sinks, csvFile, telegram>>

\* wait_fixed(2): the sleep between a failed attempt and the next one
Wait ==
    /\ pc = "wait"
    /\ clock' = clock + WaitFixed
    /\ waits' = waits + 1
    /\ pc' = "scrape"
    /\ UNCHANGED <<url, attempt, outcomes, doc, listings, consulted, properties,
                   sinks, csvFile, telegram, topError>>

\* save_to_csv(properties): ok is whether the file could be written
SaveToCsv(ok) ==
    /\ pc = "save"
    /\ sinks' = Append(sinks, [sink |-> "csv", ok |-> ok])
    /\ csvFile' = IF ok THEN <<ToCsv(properties)>> ELSE csvFile
    /\ topError' = IF ok THEN topError ELSE Exc("OSError", 0)
    /\ pc' = MainAfterSink("csv", ok)
    /\ UNCHANGED <<url, attempt, clock, waits, outcomes, doc, listings, consulted,
                   properties, telegram>>

\* send_telegram_alert(properties): ok is whether the POST came back 2xx
SendTelegramAlert(ok) ==
    /\ pc = "alert"
    /\ sinks' = Append(sinks, [sink |-> "telegram", ok |-> ok])
    /\ telegram' = <<TelegramMessage(properties)>>
    /\ topError' = IF ok THEN topError ELSE Exc("HTTPError", 0)
    /\ pc' = MainAfterSink("telegram", ok)
    /\ UNCHANGED <<url, attempt, clock, waits, outcomes, doc, listings, consulted,
                   properties, csvFile>>

Next ==
    \/ \E resp \in RunResponses : Attempt(resp)
    \/ Wait
    \/ \E ok \in BOOLEAN : SaveToCsv(ok)
    \/ \E ok \in BOOLEAN : SendTelegramAlert(ok)

Spec == Init /\ [][Next]_vars

--------------------------------------------------------------------------
(* scrape_properties(url) called on pages of one listing node, over every  *)
(* combination of present and absent elements                              *)

Urls == {TargetUrl, "https://x.org/list/"}

InitExtract == \E u \in Urls : Start("scrape", u, <<>>)

NextExtract == \E resp \in UnitResponses : Attempt(resp)

SpecExtract == InitExtract /\ [][NextExtract]_vars

--------------------------------------------------------------------------
(* save_to_csv(data) called directly, on records whose keys were inserted  *)
(* in several orders                                                       *)

ColumnOrder == <<"Title", "Price", "Location", "Bedrooms", "Link">>

KeyOrders ==
    {ColumnOrder,
     <<"Link", "Bedrooms", "Location", "Price", "Title">>,
     <<"Price", "Title", "Location", "Link", "Bedrooms">>,
     <<"Bedrooms", "Link", "Location", "Price", "Title">>}

\* a record with the keys inserted in the given order
RecordIn(order, title, link) ==
    LET value(k) ==
            CASE k = "Title" -> Str(title)
              [] k = "Price" -> Str("$900")
              [] k = "Location" -> Str("N/A")
              [] k = "Bedrooms" -> Str("2br")
              [] OTHER -> link
    IN  [i \in 1..Len(order) |-> <<order[i], value(order[i])>>]

CsvRecords ==
    {RecordIn(o, t, l) : o \in KeyOrders, t \in {"Cozy loft", "N/A"},
                         l \in {None, Str("https://x.org/7.html")}}

InitCsv ==
    \E data \in SeqsUpTo(CsvRecords, MaxRecords) :
        /\ data # <<>>
        /\ Start("save", TargetUrl, data)

NextCsv == \E ok \in BOOLEAN : SaveToCsv(ok)

SpecCsv == InitCsv /\ [][NextCsv]_vars

--------------------------------------------------------------------------
(* Properties *)

\* the last attempt of scrape_properties returned its list
ScrapeReturned == outcomes # <<>> /\ outcomes[Len(outcomes)].result = "ok"

\* the listing nodes whose extraction does not raise, in document order
Survivors == SelectSeq(listings, LAMBDA n : ~n.malformed)

Failed(i) == outcomes[i].result # "ok"

\* C1: in scrape_properties a node whose field extraction raises is skipped
\* and its exception never leaves the call: a parseable page always ends the
\* attempt normally, the number of records is the number of listing nodes
\* minus the failing ones, the records are those the surviving nodes alone
\* would give, and they stand in the document order of the surviving nodes.
C1_SkipFailingNodes ==
    /\ \A i \in 1..Len(outcomes) : outcomes[i].page => outcomes[i].result = "ok"
    /\ ScrapeReturned =>
        /\ Len(properties) =
              Len(listings) - Cardinality({i \in 1..Len(listings) : listings[i].malformed})
        /\ outcomes[Len(outcomes)].skipped =
              Cardinality({i \in 1..Len(listings) : listings[i].malformed})
        /\ properties = ExtractLoop(Survivors, url, <<>>)
        /\ Len(properties) = Len(Survivors)
        /\ \A i \in 1..Len(properties) :
              properties[i] = ExtractListing(Survivors[i], url).rec

\* a failing node stands before a surviving one, and only the survivor's
\* record is returned
C1_Witness ==
    /\ ScrapeReturned
    /\ Len(listings) = 2
    /\ listings[1].malformed
    /\ ~listings[2].malformed
    /\ Len(properties) = 1

\* C2: node discovery is first-non-empty-wins over the strategies in their
\* order: the listing set is exactly the matches of the first strategy that
\* matches anything, matches of different strategies are never merged, and
\* no strategy after the winning one is consulted, even when every match of
\* the winning one is malformed and yields no record.
C2_FirstNonEmptyWins ==
    ScrapeReturned =>
        LET a == FindAll(doc, Strategies[1])
            b == FindAll(doc, Strategies[2])
            c == FindAll(doc, Strategies[3])
        IN  /\ listings = IF a # <<>> THEN a ELSE IF b # <<>> THEN b ELSE c
            /\ consulted = IF a # <<>> THEN <<Strategies[1]>>
                           ELSE IF b # <<>> THEN <<Strategies[1], Strategies[2]>>
                           ELSE Strategies
            /\ \A i \in 1..Len(listings) : listings[i].sel = listings[1].sel

\* strategy A matches only a malformed node, strategy B would match a node:
\* B is not consulted and no record comes out
C2_Witness ==
    /\ ScrapeReturned
    /\ FindAll(doc, Strategies[1]) # <<>>
    /\ \A i \in 1..Len(listings) : listings[i].malformed
    /\ FindAll(doc, Strategies[2]) # <<>>
    /\ consulted = <<Strategies[1]>>
    /\ properties = <<>>

\* the record of a node: exactly the five keys, each text field the stripped
\* text of its element or "N/A" when the element is absent, Bedrooms from the
\* housing span before the bedrooms span; absentLink is the Link of a node
\* without an anchor
FieldsOf(node, rec, absentLink) ==
    LET text(el, k) ==
            IF el = <<>> THEN Get(rec, k) = Str("N/A")
            ELSE Get(rec, k) = Str(Strip(el[1]))
    IN  /\ Len(rec) = 5
        /\ {rec[i][1] : i \in 1..Len(rec)} =
              {"Title", "Price", "Location", "Bedrooms", "Link"}
        /\ text(node.title, "Title")
        /\ text(node.price, "Price")
        /\ text(node.location, "Location")
        /\ text(IF node.housing # <<>> THEN node.housing ELSE node.bedrooms,
                "Bedrooms")
        /\ node.href = <<>> => Get(rec, "Link") = absentLink
        /\ node.href # <<>> => Get(rec, "Link").type = "str"

\* C3 as stated: every record has exactly the five keys and every field whose
\* element is missing, Link included, is "N/A", the other fields being
\* populated from the node.
C3_Original ==
    ScrapeReturned =>
        \A i \in 1..Len(properties) :
            FieldsOf(Survivors[i], properties[i], Str("N/A"))

\* C3, amended: every record has exactly the five keys; each of Title, Price,
\* Location, Bedrooms whose element is missing is "N/A"; the Link of a node
\* without an anchor carrying an href is None; the record is still emitted
\* with the other fields populated from the node (Bedrooms taking class
\* "housing" before class "bedrooms").
C3_Amended ==
    ScrapeReturned =>
        \A i \in 1..Len(properties) :
            FieldsOf(Survivors[i], properties[i], None)

\* a node without title, housing span and anchor, with a price and a bedrooms
\* span: its record is emitted
C3_Witness ==
    /\ ScrapeReturned
    /\ Len(properties) = 1
    /\ listings[1].title = <<>>
    /\ listings[1].price # <<>>
    /\ listings[1].housing = <<>>
    /\ listings[1].bedrooms # <<>>
    /\ listings[1].href = <<>>
    /\ Get(properties[1], "Title") = Str("N/A")
    /\ Get(properties[1], "Price") = Str("$900")
    /\ Get(properties[1], "Bedrooms") = Str("3br")

\* C4: a run makes at most 3 attempts; an attempt other than the first starts
\* only after a failed attempt and one wait of 2 units, whatever the failure;
\* no attempt follows a successful one; and when attempts 1 and 2 fail and
\* attempt 3 succeeds, main goes on with the records after exactly 2 waits
\* (4 units) and with no error from the fetcher.
C4_RetryPolicy ==
    /\ attempt <= 3
    /\ attempt = Len(outcomes)
    /\ \A i \in 1..(Len(outcomes) - 1) : Failed(i)
    /\ waits = IF pc = "scrape" \/ attempt = 0 THEN attempt ELSE attempt - 1
    /\ clock = 2 * waits
    /\ (Len(outcomes) = 3 /\ Failed(1) /\ Failed(2) /\ ~Failed(3)) =>
        /\ waits = 2
        /\ clock = 4
        /\ topError.type # "RetryError"
        /\ topError.attempt = 0
        /\ pc = "failed" => sinks # <<>>
        /\ Len(properties) = Len(Survivors)

\* two failed attempts of different kinds, then a third that returns records
C4_Witness ==
    /\ Len(outcomes) = 3
    /\ outcomes[1].result = "ConnectionError"
    /\ outcomes[2].result = "HTTPError"
    /\ outcomes[3].result = "ok"
    /\ properties # <<>>
    /\ pc = "save"
    /\ clock = 4

\* C5: when all 3 attempts fail, the error main receives is the failure of
\* the last attempt itself, unchanged, and the run ends with it as its
\* top-level error without invoking any sink.
C5_LastFailurePropagates ==
    (Len(outcomes) = 3 /\ Failed(1) /\ Failed(2) /\ Failed(3)) =>
        /\ pc = "failed"
        /\ sinks = <<>>
        /\ topError = Exc(outcomes[3].result, 3)

\* C6: when extraction yields zero records no sink is invoked, nothing is
\* written or posted, and the run ends normally; when it yields at least one
\* record the CSV sink is invoked; the email sink is never invoked.
C6_ZeroRecordsSkipSinks ==
    /\ (ScrapeReturned /\ properties = <<>>) =>
        /\ sinks = <<>>
        /\ csvFile = <<>>
        /\ telegram = <<>>
        /\ pc = "done"
        /\ topError = NoError
    /\ (ScrapeReturned /\ properties # <<>>) =>
        \/ pc = "save" /\ sinks = <<>>
        \/ sinks # <<>> /\ sinks[1].sink = "csv"
    /\ sinks # <<>> => ScrapeReturned /\ properties # <<>>
    /\ \A i \in 1..Len(sinks) : sinks[i].sink \in {"csv", "telegram"}

\* a page whose only matched node was skipped: zero records, the run is done
C6_Witness ==
    /\ ScrapeReturned
    /\ listings # <<>>
    /\ properties = <<>>
    /\ pc = "done"

\* C7: the sinks run in the order CSV write, chat alert: the alert is sent
\* only after the CSV write succeeded; a failed CSV write ends the run with
\* its error and no alert; a failed alert ends the run with its error and the
\* CSV file written before stays written.
C7_SinkOrder ==
    /\ Len(sinks) <= 2
    /\ Len(sinks) >= 1 => sinks[1].sink = "csv"
    /\ Len(sinks) = 2 => sinks[2].sink = "telegram" /\ sinks[1].ok
    /\ telegram # <<>> => Len(sinks) = 2
    /\ (Len(sinks) >= 1 /\ ~sinks[1].ok) =>
        /\ pc = "failed"
        /\ topError = Exc("OSError", 0)
        /\ Len(sinks) = 1
        /\ telegram = <<>>
    /\ (Len(sinks) >= 1 /\ sinks[1].ok) =>
        /\ csvFile # <<>>
        /\ Len(csvFile[1].rows) = Len(properties)
    /\ (Len(sinks) = 2 /\ ~sinks[2].ok) =>
        /\ pc = "failed"
        /\ topError = Exc("HTTPError", 0)
    /\ (Len(sinks) = 2 /\ sinks[2].ok) => pc = "done" /\ topError = NoError

\* the CSV was written and the alert then failed
C7_Witness ==
    /\ Len(sinks) = 2
    /\ sinks[1].ok
    /\ ~sinks[2].ok
    /\ csvFile # <<>>
    /\ pc = "failed"

\* C8: the Link of a node with an anchor is the href unchanged when the href
\* starts with "http", and otherwise the query url immediately followed by
\* the href; "/post/123" against the Dallas search url gives
\* "https://dallas.craigslist.org/search/rea/post/123".
C8_NaiveLink ==
    ScrapeReturned =>
        \A i \in 1..Len(properties) :
            LET href == Survivors[i].href
                link == Get(properties[i], "Link")
            IN  href # <<>> =>
                  /\ IF Len(href[1]) >= 4 /\ SubSeq(href[1], 1, 4) = "http"
                     THEN link = Str(href[1])
                     ELSE /\ link.type = "str"
                          /\ Len(link.val) = Len(url) + Len(href[1])
                          /\ SubSeq(link.val, 1, Len(url)) = url
                          /\ SubSeq(link.val, Len(url) + 1, Len(link.val)) = href[1]
                  /\ (url = "https://dallas.craigslist.org/search/rea"
                          /\ href[1] = "/post/123") =>
                        link = Str("https://dallas.craigslist.org/search/rea/post/123")

\* the href "/post/123" on a page fetched from the Dallas search url
C8_Witness ==
    /\ ScrapeReturned
    /\ url = "https://dallas.craigslist.org/search/rea"
    /\ Len(properties) = 1
    /\ listings[1].href = <<"/post/123">>
    /\ Get(properties[1], "Link").val = "https://dallas.craigslist.org/search/rea/post/123"

\* C9 as stated: whatever the insertion order of the records' keys, the
\* columns of the written CSV are Title, Price, Location, Bedrooms, Link.
C9_Original ==
    csvFile # <<>> =>
        csvFile[1].header = <<"Title", "Price", "Location", "Bedrooms", "Link">>

\* C9, amended: the columns of the written CSV (header and rows) are in the
\* order in which the keys were inserted into the input records (for records
\* with the same keys, the first record's order), which is Title, Price,
\* Location, Bedrooms, Link exactly when the first record was built in that
\* order, as the records of scrape_properties are.
C9_Amended ==
    csvFile # <<>> =>
        LET table == csvFile[1]
        IN  /\ table.header = KeysOf(properties[1])
            /\ (table.header = <<"Title", "Price", "Location", "Bedrooms", "Link">>)
                 <=> (KeysOf(properties[1]) =
                        <<"Title", "Price", "Location", "Bedrooms", "Link">>)
            /\ Len(table.rows) = Len(properties)
            /\ \A i \in 1..Len(properties) : \A j \in 1..5 :
                 table.rows[i][j] =
                    IF Get(properties[i], table.header[j]) = None THEN ""
                    ELSE Get(properties[i], table.header[j]).val

\* a file written from records whose keys were inserted Link first
C9_Witness ==
    /\ csvFile # <<>>
    /\ KeysOf(properties[1]) = <<"Link", "Bedrooms", "Location", "Price", "Title">>
    /\ csvFile[1].header[1] = "Link"

SinkCount(name) == Cardinality({i \in 1..Len(sinks) : sinks[i].sink = name})

\* C10 as stated: only a failure of the HTTP GET is followed by another GET,
\* a failure raised after a successful GET never is, and each sink is invoked
\* at most once.
C10_Original ==
    /\ \A i \in 1..(Len(outcomes) - 1) :
          outcomes[i].result \in {"ConnectionError", "HTTPError"}
    /\ SinkCount("csv") <= 1
    /\ SinkCount("telegram") <= 1

\* C10, amended: retrying is confined to scrape_properties: every exception
\* that leaves it, a failed GET or a failure while parsing the response of a
\* successful GET, is followed by another GET while attempts remain, so a
\* fetcher error ends the run only after 3 attempts; a failure inside the
\* extraction of one listing node never causes another GET; each sink is
\* invoked at most once and never again after it fails.
C10_Amended ==
    /\ \A i \in 1..(Len(outcomes) - 1) :
          outcomes[i].result \in {"ConnectionError", "HTTPError", "ParserRejectedMarkup"}
    /\ \A i \in 1..Len(outcomes) :
          (outcomes[i].page /\ outcomes[i].skipped > 0) => i = Len(outcomes)
    /\ (pc = "failed" /\ sinks = <<>>) => Len(outcomes) = 3
    /\ pc = "wait" => Failed(Len(outcomes))
    /\ SinkCount("csv") <= 1
    /\ SinkCount("telegram") <= 1
    /\ \A i \in 1..Len(sinks) : ~sinks[i].ok => (i = Len(sinks) /\ pc = "failed")

\* the parser rejected the first response and the page was fetched again
C10_Witness ==
    /\ Len(outcomes) >= 2
    /\ outcomes[1].result = "ParserRejectedMarkup"
    /\ outcomes[Len(outcomes)].skipped > 0

====
